---- MODULE Spec2Model ----
(***************************************************************************)
(* DataProcessor of src/data_processor.py: the per-symbol tick windows     *)
(* (symbol_data), the throttle timestamps (last_processed), and the four   *)
(* operations update_data, calculate_indicators, detect_trend and          *)
(* detect_exit_signal.                                                     *)
(*                                                                         *)
(* Times are epoch milliseconds as in the code.  Prices are integers.      *)
(* macd_diff is carried in units of 0.0001, so the code's 0.0002 is 2.     *)
(* The columns computed by the ta library and by pandas' ewm (rsi,         *)
(* macd_diff, adx, stoch_k, ema_50, ema_200) are not derived here: their   *)
(* values for the rows the code reads are drawn from LibraryRows at each   *)
(* call.  The columns computed in data_processor.py itself (vwap,          *)
(* price_pct_change, ema_crossover) are computed from the window.          *)
(***************************************************************************)
EXTENDS Integers, Sequences, FiniteSets, TLC

VARIABLES symbol_data, last_processed, now, ret, calls, evaluated_at

vars == <<symbol_data, last_processed, now, ret, calls, evaluated_at>>

----------------------------------------------------------------------------
(* Program constants                                                       *)

TIME_INTERVAL_MINUTES == 3
PRICE_CHANGE_THRESHOLD == 3
MACD_SLOW == 26
MACD_SIGNAL == 9
ADX_THRESHOLD == 25

RetentionMs == 3 * 60 * 60 * 1000
IntervalMs == TIME_INTERVAL_MINUTES * 60 * 1000
HoldingMs == 15 * 60 * 1000
MinTicks == 30
MinExitRows == 5

\* Rows whose macd_signal is still undefined: the slow EMA needs MACD_SLOW
\* prices and the signal EMA needs MACD_SIGNAL values of macd.  This is the
\* longest warm-up of the configured indicators.
WarmUpRows == MACD_SLOW + MACD_SIGNAL - 2

----------------------------------------------------------------------------
(* Bounds of the model                                                     *)

\* The clock starts at Clock0 and is observed every Step milliseconds, for
\* MaxSteps steps.
Clock0 == 20000000
Step == 60000
MaxSteps == 38

\* The feed: a tick continues its window when it is complete, stamped one
\* Step after the newest stored tick and repeats the price and volume of
\* the tick stored before it.  At most MaxIrregular stored ticks of a window
\* do not, none of them before position IrregularFrom, and the clock runs at
\* most MaxIdle steps ahead of the newest tick.
MaxIrregular == 1
IrregularFrom == 29
MaxIdle == 1
BasePrice == 100
BaseVolume == 2

Symbols == {"BTCUSDT"}
Threads == {"t1", "t2"}
Prices == {96, 100, 104}

FieldNames == {"symbol", "price", "volume", "timestamp"}

----------------------------------------------------------------------------
(* Ticks                                                                   *)

\* A tick is a Python dict; keys is the set of keys it has.  The value of
\* an absent key is never read and is normalised to 0 (or "").
MkTick(keys, s, p, v, t) ==
    [keys |-> keys,
     symbol |-> IF "symbol" \in keys THEN s ELSE "",
     price |-> IF "price" \in keys THEN p ELSE 0,
     volume |-> IF "volume" \in keys THEN v ELSE 0,
     timestamp |-> IF "timestamp" \in keys THEN t ELSE 0]

NoTick == MkTick({}, "", 0, 0, 0)

\* Section 3 of the specification: a Tick has all four fields and a
\* positive price.
WellFormed(tick) == tick.keys = FieldNames /\ tick.price > 0

\* self.symbol_data.get(s, []): the window of s.
Window(s) == IF s \in DOMAIN symbol_data THEN symbol_data[s] ELSE <<>>

Max(a, b) == IF a >= b THEN a ELSE b

----------------------------------------------------------------------------
(* The feed                                                                *)

\* The newest timestamp among the two ticks stored before position i of w;
\* Clock0 - Step when neither has one.
Ref(w, i) ==
    LET a == IF i > 1 /\ "timestamp" \in w[i - 1].keys
             THEN w[i - 1].timestamp ELSE Clock0 - Step
        b == IF i > 2 /\ "timestamp" \in w[i - 2].keys
             THEN w[i - 2].timestamp ELSE Clock0 - Step
    IN Max(a, b)

\* The tick at position i of w continues the window.
Continues(w, i) ==
    /\ WellFormed(w[i])
    /\ w[i].timestamp = Ref(w, i) + Step
    /\ w[i].price = (IF i > 1 /\ "price" \in w[i - 1].keys
                     THEN w[i - 1].price ELSE BasePrice)
    /\ w[i].volume = (IF i > 1 /\ "volume" \in w[i - 1].keys
                      THEN w[i - 1].volume ELSE BaseVolume)

Irregular(w) == {i \in 1..Len(w) : ~Continues(w, i)}

\* The feed delivers tick to window w, which holds n ticks that do not
\* continue it: a tick that does not continue the window arrives only at
\* position IrregularFrom or later, and only while n < MaxIrregular.
Delivers(w, n, tick) ==
    IF Continues(Append(w, tick), Len(w) + 1) THEN TRUE
    ELSE Len(w) + 1 >= IrregularFrom /\ n < MaxIrregular

\* The ticks the feed may deliver for symbol s at this instant: the
\* continuation of the window, and the ticks that differ from it in one
\* respect.
Arrivals(s) ==
    LET w == Window(s)
        p == IF Len(w) > 0 /\ "price" \in w[Len(w)].keys
             THEN w[Len(w)].price ELSE BasePrice
        v == IF Len(w) > 0 /\ "volume" \in w[Len(w)].keys
             THEN w[Len(w)].volume ELSE BaseVolume
        late == Ref(w, Len(w) + 1) - Step \div 2
    IN {MkTick(FieldNames, s, p, v, now)}
       \cup {MkTick(FieldNames, s, q, v, now) : q \in Prices \cup {0}}
       \cup {MkTick(FieldNames, s, p, v, t) :
               t \in {late, now - RetentionMs, now - RetentionMs + Step}}
       \cup {MkTick(FieldNames \ {f}, s, p, v, now) : f \in FieldNames}

----------------------------------------------------------------------------
(* Indicator frames                                                        *)

\* The values the ta library and pandas' ewm produce for the latest row of
\* a frame (and the two EMAs of the row before it).  macd_diff is in units
\* of 0.0001.
Momentum ==
    {[rsi |-> 20, macd_diff |-> -3, stoch_k |-> 10],
     [rsi |-> 50, macd_diff |-> 0, stoch_k |-> 50],
     [rsi |-> 80, macd_diff |-> 3, stoch_k |-> 90]}

Trend ==
    {[adx |-> 30, ema_50 |-> 101, prev_ema_50 |-> 101],
     [adx |-> 30, ema_50 |-> 99, prev_ema_50 |-> 99],
     [adx |-> 30, ema_50 |-> 99, prev_ema_50 |-> 101],
     [adx |-> 30, ema_50 |-> 101, prev_ema_50 |-> 99],
     [adx |-> 20, ema_50 |-> 100, prev_ema_50 |-> 101]}

LibraryRows ==
    {[rsi |-> m.rsi, macd_diff |-> m.macd_diff, stoch_k |-> m.stoch_k,
      adx |-> t.adx, ema_50 |-> t.ema_50, ema_200 |-> 100,
      prev_ema_50 |-> t.prev_ema_50, prev_ema_200 |-> 100] :
        m \in Momentum, t \in Trend}

\* Crossover with equal averages counted as a rise.
CrossoverTwoValued(ema_50, ema_200) ==
    IF ema_50 >= ema_200 THEN 1 ELSE -1

\* Lines 97-99: ema_crossover of a row.
Crossover(ema_50, ema_200) ==
    IF ema_50 > ema_200 THEN 1
    ELSE IF ema_50 < ema_200 THEN -1
    ELSE 0

\* FrameOrder without drop_duplicates: the stamped positions sorted by
\* timestamp.
FrameOrderSortOnly(w) ==
    LET Stamped(i) == "timestamp" \in w[i].keys
        Before(i, j) == \/ w[i].timestamp < w[j].timestamp
                        \/ w[i].timestamp = w[j].timestamp /\ i < j
    IN SortSeq(SelectSeq([i \in 1..Len(w) |-> i], Stamped), Before)

\* Lines 53-55: the positions in the stored list of the rows of the frame,
\* in frame order.  sort_values orders by timestamp and drop_duplicates
\* keeps the first row of each timestamp; the sort is taken to keep the
\* stored order of equal timestamps.  Dicts without a timestamp sort last
\* and are dropped by dropna; they are left out here.
FrameOrder(w) ==
    LET Stamped(i) == "timestamp" \in w[i].keys
        Before(i, j) == \/ w[i].timestamp < w[j].timestamp
                        \/ w[i].timestamp = w[j].timestamp /\ i < j
        sorted == SortSeq(SelectSeq([i \in 1..Len(w) |-> i], Stamped), Before)
        First(k) == \/ k = 1
                    \/ w[sorted[k]].timestamp # w[sorted[k - 1]].timestamp
        kept == SelectSeq([k \in 1..Len(sorted) |-> k], First)
    IN [k \in 1..Len(kept) |-> sorted[kept[k]]]

\* A row has price and volume.
Complete(d) == "price" \in d.keys /\ "volume" \in d.keys

RECURSIVE Sum(_, _)
\* The sum of the first k elements of xs.
Sum(xs, k) == IF k = 0 THEN 0 ELSE xs[k] + Sum(xs, k - 1)

\* Line 87: the cumulative sums of volume (pv = FALSE) and of price*volume
\* (pv = TRUE) over rows 1..k of the frame; rows without a value are
\* skipped.
CumSum(w, order, k, pv) ==
    LET Term(i) == IF ~Complete(w[order[i]]) THEN 0
                   ELSE IF pv THEN w[order[i]].price * w[order[i]].volume
                   ELSE w[order[i]].volume
    IN Sum([i \in 1..k |-> Term(i)], k)

\* Line 90: price_pct_change of row k is 100 * PctNum / PctDen.
PctNum(w, order, k) ==
    w[order[k]].price - w[order[k - TIME_INTERVAL_MINUTES]].price

PctDen(w, order, k) == w[order[k - TIME_INTERVAL_MINUTES]].price

\* Line 124: row k has no undefined value.  The library columns are
\* undefined during warm-up; price_pct_change needs the row
\* TIME_INTERVAL_MINUTES before and is 0/0 when both prices are 0; vwap is
\* 0/0 when no volume has accumulated.
Defined(w, order, k) ==
    /\ k > WarmUpRows
    /\ k > TIME_INTERVAL_MINUTES
    /\ Complete(w[order[k]])
    /\ "price" \in w[order[k - TIME_INTERVAL_MINUTES]].keys
    /\ ~(PctDen(w, order, k) = 0 /\ PctNum(w, order, k) = 0)
    /\ CumSum(w, order, k, FALSE) # 0

NoRow ==
    [timestamp |-> 0, price |-> 0, volume |-> 0, cum_pv |-> 0, cum_v |-> 0,
     pct_num |-> 0, pct_den |-> 0, rsi |-> 0, macd_diff |-> 0, adx |-> 0,
     stoch_k |-> 0, ema_50 |-> 0, ema_200 |-> 0, ema_crossover |-> 0]

\* Line 55: the number of rows after drop_duplicates(subset='timestamp').
\* Rows without a timestamp count as one row.
DedupCount(w) ==
    Cardinality({w[i].timestamp : i \in {j \in 1..Len(w) :
                                            "timestamp" \in w[j].keys}})
    + (IF \E i \in 1..Len(w) : "timestamp" \notin w[i].keys THEN 1 ELSE 0)

\* InsufficientData with the ticks counted after the dedup of line 55.
InsufficientAfterDedup(symbol) ==
    \/ symbol \notin DOMAIN symbol_data
    \/ DedupCount(symbol_data[symbol]) < MinTicks

\* Line 49: the test that makes calculate_indicators return None.
InsufficientData(symbol) ==
    \/ symbol \notin DOMAIN symbol_data
    \/ Len(symbol_data[symbol]) < MinTicks

\* Lines 49-55, 87-90 and 124: None, or the rows that survive dropna with
\* the columns computed in the source: the number of rows and the last row.
SourceFrame(symbol) ==
    IF InsufficientData(symbol)
    THEN [none |-> TRUE, len |-> 0, last |-> NoRow]
    ELSE LET w == symbol_data[symbol]
             order == FrameOrder(w)
             rows == SelectSeq([k \in 1..Len(order) |-> k],
                               LAMBDA k : Defined(w, order, k))
             n == Len(rows)
         IN [none |-> FALSE, len |-> n,
             last |-> IF n = 0 THEN NoRow
                      ELSE [NoRow EXCEPT
                              !.timestamp = w[order[rows[n]]].timestamp,
                              !.price = w[order[rows[n]]].price,
                              !.volume = w[order[rows[n]]].volume,
                              !.cum_pv = CumSum(w, order, rows[n], TRUE),
                              !.cum_v = CumSum(w, order, rows[n], FALSE),
                              !.pct_num = PctNum(w, order, rows[n]),
                              !.pct_den = PctDen(w, order, rows[n])]]

\* Lines 59-74, 93-99, 102-121: the library columns of the last row, and
\* ema_crossover of the row before it (0 when there is none).
WithLibrary(src, lib) ==
    [none |-> src.none,
     len |-> src.len,
     latest |-> IF src.none \/ src.len = 0 THEN NoRow
                ELSE [src.last EXCEPT
                        !.rsi = lib.rsi, !.macd_diff = lib.macd_diff,
                        !.adx = lib.adx, !.stoch_k = lib.stoch_k,
                        !.ema_50 = lib.ema_50, !.ema_200 = lib.ema_200,
                        !.ema_crossover = Crossover(lib.ema_50, lib.ema_200)],
     prev_crossover |-> IF src.none \/ src.len < 2 THEN 0
                        ELSE Crossover(lib.prev_ema_50, lib.prev_ema_200)]

\* The library values that make a difference to the frame.
LibraryFor(src) ==
    IF src.none \/ src.len = 0
    THEN {CHOOSE lib \in LibraryRows : TRUE}
    ELSE LibraryRows

\* calculate_indicators(symbol), given the values the library produces.
calculate_indicators(symbol, lib) == WithLibrary(SourceFrame(symbol), lib)

\* The frames calculate_indicators(symbol) may return, one for each choice
\* of the library's values.
Frames(symbol) ==
    LET src == SourceFrame(symbol)
    IN {WithLibrary(src, lib) : lib \in LibraryFor(src)}

\* The dedup-and-sort of lines 53-55 applied to the window of a symbol: the
\* timestamps of the rows, in frame order.
FrameStamps(symbol) ==
    LET w == Window(symbol)
        order == FrameOrder(w)
    IN [k \in 1..Len(order) |-> w[order[k]].timestamp]

----------------------------------------------------------------------------
(* Return values of the last call                                         *)

\* op: the operation; symbol: its symbol; at: the clock during the call;
\* outcome: what it returned or the error it raised; line: the line of
\* data_processor.py where it returned or raised; tick: the argument of
\* update_data.
NoRet ==
    [op |-> "init", symbol |-> "", at |-> 0, outcome |-> "None", line |-> 0,
     tick |-> NoTick]

Returned(op, symbol, outcome, line) ==
    [NoRet EXCEPT !.op = op, !.symbol = symbol, !.at = now,
                  !.outcome = outcome, !.line = line]

\* evaluated_at records, for each symbol, the clock of the latest
\* detect_trend call that went on to evaluate the predicates (lines
\* 140-165); it has no entry for a symbol before the first such call.

\* A detect_trend call in flight on a thread: pc is the line it is about
\* to run ("idle" when the thread is in no call), current_time and
\* last_processed_time its locals, passed whether it got past the throttle
\* gate of line 137.
NoCall ==
    [pc |-> "idle", symbol |-> "", current_time |-> 0,
     last_processed_time |-> 0, passed |-> FALSE]

----------------------------------------------------------------------------
(* update_data                                                             *)

\* Retained with the boundary included: a tick exactly three hours old
\* stays.
RetainedInclusive(d, current_time) ==
    d.timestamp >= current_time - RetentionMs

\* d['timestamp'] > three_hours_ago
Retained(d, current_time) == d.timestamp > current_time - RetentionMs

\* [d for d in self.symbol_data[symbol] if d['timestamp'] > three_hours_ago]
Prune(w, current_time) == SelectSeq(w, LAMBDA d : Retained(d, current_time))

\* The list comprehension reads d['timestamp'] of every stored dict.
PruneRaises(w) == \E i \in 1..Len(w) : "timestamp" \notin w[i].keys

\* symbol_data after lines 33-38.
Appended(tick) ==
    LET s == tick.symbol
        sd == IF s \in DOMAIN symbol_data THEN symbol_data
              ELSE (s :> <<>>) @@ symbol_data
    IN [sd EXCEPT ![s] = Append(@, tick)]

\* Registered with last_processed set to 0 on every append.
RegisteredAlways(tick) == (tick.symbol :> 0) @@ last_processed

\* last_processed after lines 33-35.
Registered(tick) ==
    IF tick.symbol \in DOMAIN symbol_data THEN last_processed
    ELSE (tick.symbol :> 0) @@ last_processed

update_data(tick) ==
    IF "symbol" \notin tick.keys
    THEN \* line 31 raises KeyError before anything is touched
         /\ ret' = [Returned("update_data", "", "KeyError", 31)
                    EXCEPT !.tick = tick]
         /\ UNCHANGED <<symbol_data, last_processed, now, calls, evaluated_at>>
    ELSE LET s == tick.symbol
             sd == Appended(tick)
         IN /\ last_processed' = Registered(tick)
            /\ IF PruneRaises(sd[s])
               THEN \* line 45 raises KeyError; line 43 assigns nothing
                    /\ symbol_data' = sd
                    /\ ret' = [Returned("update_data", s, "KeyError", 45)
                               EXCEPT !.tick = tick]
               ELSE /\ symbol_data' = [sd EXCEPT ![s] = Prune(@, now)]
                    /\ ret' = [Returned("update_data", s, "None", 46)
                               EXCEPT !.tick = tick]
            /\ UNCHANGED <<now, calls, evaluated_at>>

UpdateData ==
    \E s \in Symbols : \E n \in {Cardinality(Irregular(Window(s)))} :
      \E tick \in Arrivals(s) :
        /\ Delivers(Window(s), n, tick)
        /\ update_data(tick)

----------------------------------------------------------------------------
(* calculate_indicators as an operation                                    *)

CalculateIndicators ==
    \E s \in Symbols : \E none \in {df.none : df \in Frames(s)} :
        /\ ret' = IF none
                  THEN Returned("calculate_indicators", s, "None", 50)
                  ELSE Returned("calculate_indicators", s, "frame", 126)
        /\ UNCHANGED <<symbol_data, last_processed, now, calls, evaluated_at>>

----------------------------------------------------------------------------
(* detect_trend                                                            *)

\* latest['price_pct_change'] > x, for an integer x
PctAbove(row, x) ==
    IF row.pct_den = 0 THEN row.pct_num > 0
    ELSE 100 * row.pct_num > x * row.pct_den

\* latest['price_pct_change'] < x
PctBelow(row, x) ==
    IF row.pct_den = 0 THEN row.pct_num < 0
    ELSE 100 * row.pct_num < x * row.pct_den

\* pump_signal without the test of adx.
pump_signal_no_adx(latest) ==
    /\ PctAbove(latest, PRICE_CHANGE_THRESHOLD)
    /\ latest.rsi > 50
    /\ latest.macd_diff > 0
    /\ latest.price * latest.cum_v > latest.cum_pv
    /\ latest.ema_crossover >= 0

\* Lines 145-153
pump_signal(latest) ==
    /\ PctAbove(latest, PRICE_CHANGE_THRESHOLD)
    /\ latest.rsi > 50
    /\ latest.macd_diff > 0
    /\ latest.price * latest.cum_v > latest.cum_pv
    /\ latest.ema_crossover >= 0
    /\ latest.adx > ADX_THRESHOLD

\* dump_signal with the conditions joined by "or".
dump_signal_any(latest) ==
    \/ PctBelow(latest, -PRICE_CHANGE_THRESHOLD)
    \/ latest.rsi < 50
    \/ latest.macd_diff < 0
    \/ latest.price * latest.cum_v < latest.cum_pv
    \/ latest.ema_crossover <= 0
    \/ latest.adx > ADX_THRESHOLD

\* Lines 157-165
dump_signal(latest) ==
    /\ PctBelow(latest, -PRICE_CHANGE_THRESHOLD)
    /\ latest.rsi < 50
    /\ latest.macd_diff < 0
    /\ latest.price * latest.cum_v < latest.cum_pv
    /\ latest.ema_crossover <= 0
    /\ latest.adx > ADX_THRESHOLD

\* Throttled with the interval taken in seconds, not milliseconds.
ThrottledSeconds(current_time, last_processed_time) ==
    current_time - last_processed_time < TIME_INTERVAL_MINUTES * 60

\* Line 137: the call is throttled.
Throttled(current_time, last_processed_time) ==
    current_time - last_processed_time < IntervalMs

\* Line 134: self.last_processed.get(symbol, 0)
LastProcessed(symbol) ==
    IF symbol \in DOMAIN last_processed THEN last_processed[symbol] ELSE 0

\* Processed writing current_time for every symbol that has an entry.
ProcessedAll(symbol, current_time) ==
    [s \in DOMAIN last_processed \cup {symbol} |-> current_time]

\* Line 168: self.last_processed[symbol] = current_time
Processed(symbol, current_time) ==
    IF symbol \in DOMAIN last_processed
    THEN [last_processed EXCEPT ![symbol] = current_time]
    ELSE (symbol :> current_time) @@ last_processed

\* Lines 171-182 and 184-195: the dict returned for an entry.  price_change
\* is pct_num / pct_den * 100.
entry_signal(symbol, trend, latest, current_time) ==
    [symbol |-> symbol, trend |-> trend, price |-> latest.price,
     pct_num |-> latest.pct_num, pct_den |-> latest.pct_den,
     rsi |-> latest.rsi, macd_diff |-> latest.macd_diff,
     adx |-> latest.adx, ema_crossover |-> latest.ema_crossover,
     stoch_k |-> latest.stoch_k, timestamp |-> current_time]

\* What detect_trend(symbol) returns at current_time, and the line where
\* it returns; df is calculate_indicators(symbol) of line 129.
detect_trend_result(symbol, df, current_time) ==
    IF df.none \/ df.len < TIME_INTERVAL_MINUTES
    THEN [outcome |-> "None", line |-> 131]
    ELSE IF Throttled(current_time, LastProcessed(symbol))
    THEN [outcome |-> "None", line |-> 138]
    ELSE IF pump_signal(df.latest)
    THEN [outcome |-> "LONG", line |-> 171]
    ELSE IF dump_signal(df.latest)
    THEN [outcome |-> "SHORT", line |-> 184]
    ELSE [outcome |-> "None", line |-> 197]

\* The lines after the throttle gate: the predicates were evaluated.
Evaluated(line) == line \in {171, 184, 197}

\* evaluated_at after a detect_trend call for symbol that returned on line:
\* the clock of the call when it evaluated the predicates.
Noted(symbol, line) ==
    IF Evaluated(line) THEN (symbol :> now) @@ evaluated_at
    ELSE evaluated_at

\* detect_trend writing last_processed on every call, the ones that return
\* early included.
detect_trend_marking(symbol, r) ==
       /\ ret' = Returned("detect_trend", symbol, r.outcome, r.line)
       /\ last_processed' = Processed(symbol, now)
       /\ evaluated_at' = Noted(symbol, r.line)
       /\ UNCHANGED <<symbol_data, now, calls>>

\* detect_trend writing last_processed only when a signal is returned.
detect_trend_on_signal(symbol, r) ==
       /\ ret' = Returned("detect_trend", symbol, r.outcome, r.line)
       /\ last_processed' = IF r.outcome # "None" THEN Processed(symbol, now)
                            ELSE last_processed
       /\ evaluated_at' = Noted(symbol, r.line)
       /\ UNCHANGED <<symbol_data, now, calls>>

\* r is detect_trend_result(symbol, df, now) for the frame df computed on
\* line 129.
detect_trend(symbol, r) ==
       /\ ret' = Returned("detect_trend", symbol, r.outcome, r.line)
       /\ last_processed' = IF Evaluated(r.line) THEN Processed(symbol, now)
                            ELSE last_processed
       /\ evaluated_at' = Noted(symbol, r.line)
       /\ UNCHANGED <<symbol_data, now, calls>>

DetectTrend ==
    \E s \in Symbols :
      \E r \in {detect_trend_result(s, df, now) : df \in Frames(s)} :
        detect_trend(s, r)

----------------------------------------------------------------------------
(* detect_exit_signal                                                      *)

\* The positions handed to detect_exit_signal for symbol s at this instant:
\* LONG or SHORT, entered now, one millisecond less than the holding period
\* ago, or exactly the holding period ago, or carrying no 'timestamp' at all.
Positions(s) ==
    {[keys |-> {"symbol", "trend", "entry_price", "timestamp"}, symbol |-> s,
      trend |-> t, entry_price |-> BasePrice, timestamp |-> now - age] :
        t \in {"LONG", "SHORT"}, age \in {0, HoldingMs - 1, HoldingMs}}
    \cup {[keys |-> {"symbol", "trend", "entry_price"}, symbol |-> s,
           trend |-> t, entry_price |-> BasePrice, timestamp |-> 0] :
            t \in {"LONG", "SHORT"}}

\* Held with the holding period taken in seconds, not milliseconds.
HeldSeconds(position, current_time) ==
    /\ "timestamp" \in position.keys
    /\ current_time - position.timestamp < 15 * 60

\* Lines 208-213: the position is younger than the holding period.
Held(position, current_time) ==
    /\ "timestamp" \in position.keys
    /\ current_time - position.timestamp < HoldingMs

\* Lines 230-234: the exit conditions of a LONG position that precede the
\* crossover test.  vwap * 0.99 is compared as 100 * price * cum_v against
\* 99 * cum_pv.
LongReversal(latest) ==
    \/ latest.macd_diff < -2 /\ latest.rsi < 40
    \/ latest.rsi > 75 /\ latest.stoch_k > 80
    \/ 100 * latest.price * latest.cum_v < 99 * latest.cum_pv

\* Lines 252-256: the same for a SHORT position.
ShortReversal(latest) ==
    \/ latest.macd_diff > 2 /\ latest.rsi > 60
    \/ latest.rsi < 25 /\ latest.stoch_k < 20
    \/ 100 * latest.price * latest.cum_v > 101 * latest.cum_pv

\* exit_signal with the profit of a LONG position for either trend.
exit_signal_long(position, latest, current_time) ==
    [symbol |-> position.symbol,
     exit_price |-> latest.price,
     profit_num |-> (latest.price - position.entry_price) * 100,
     profit_den |-> position.entry_price,
     reason |-> "Trend reversal detected",
     timestamp |-> current_time]

\* Lines 221-225, 238-244, 247 and 260-266: the dict returned for an exit.
\* profit_pct is profit_num / profit_den.
exit_signal(position, latest, current_time) ==
    [symbol |-> position.symbol,
     exit_price |-> latest.price,
     profit_num |-> IF position.trend = "LONG"
                    THEN (latest.price - position.entry_price) * 100
                    ELSE (position.entry_price - latest.price) * 100,
     profit_den |-> position.entry_price,
     reason |-> "Trend reversal detected",
     timestamp |-> current_time]

\* What detect_exit_signal(position) returns or raises at current_time, and
\* the line where it does; df is calculate_indicators(symbol) of line 215.
\* On lines 236 and 258 latest['ema_crossover'] is a number: when the
\* conditions before it are false and it equals -1 (LONG) or 1 (SHORT),
\* Python evaluates latest['ema_crossover'].shift(1), which raises
\* AttributeError.
detect_exit_result(position, df, current_time) ==
    IF Held(position, current_time)
    THEN [outcome |-> "None", line |-> 213]
    ELSE IF df.none \/ df.len < MinExitRows
    THEN [outcome |-> "None", line |-> 217]
    ELSE IF position.trend = "LONG"
    THEN IF LongReversal(df.latest)
         THEN [outcome |-> "ExitSignal", line |-> 238]
         ELSE IF df.latest.ema_crossover = -1
         THEN [outcome |-> "AttributeError", line |-> 236]
         ELSE [outcome |-> "None", line |-> 268]
    ELSE IF position.trend = "SHORT"
    THEN IF ShortReversal(df.latest)
         THEN [outcome |-> "ExitSignal", line |-> 260]
         ELSE IF df.latest.ema_crossover = 1
         THEN [outcome |-> "AttributeError", line |-> 258]
         ELSE [outcome |-> "None", line |-> 268]
    ELSE [outcome |-> "None", line |-> 268]

\* r is detect_exit_result(position, df, now) for the frame df computed on
\* line 215.
detect_exit_signal(symbol, r) ==
       /\ ret' = Returned("detect_exit_signal", symbol, r.outcome, r.line)
       /\ UNCHANGED <<symbol_data, last_processed, now, calls, evaluated_at>>

DetectExit ==
    \E s \in Symbols :
      \E r \in {detect_exit_result(position, df, now) :
                  position \in Positions(s), df \in Frames(s)} :
        detect_exit_signal(s, r)

----------------------------------------------------------------------------
(* get_market_data                                                         *)

\* The values of the period argument: the default and two smaller ones.
Periods == {1, MinTicks, 100}

\* What get_market_data(symbol, period) returns and the line where it
\* returns; df is calculate_indicators(symbol) of line 277.  The frame
\* returned on line 282 is the last period rows of df.
get_market_data_result(symbol, period, df) ==
    IF symbol \notin DOMAIN symbol_data \/ Len(symbol_data[symbol]) < period
    THEN [outcome |-> "None", line |-> 275]
    ELSE IF df.none
    THEN [outcome |-> "None", line |-> 279]
    ELSE [outcome |-> "frame", line |-> 282]

get_market_data(symbol, r) ==
       /\ ret' = Returned("get_market_data", symbol, r.outcome, r.line)
       /\ UNCHANGED <<symbol_data, last_processed, now, calls, evaluated_at>>

GetMarketData ==
    \E s \in Symbols :
      \E r \in {get_market_data_result(s, period, df) :
                  period \in Periods, df \in Frames(s)} :
        get_market_data(s, r)

----------------------------------------------------------------------------
(* The clock read by datetime.datetime.now()                               *)

ClockAdvance ==
    /\ now + Step <= Clock0 + MaxSteps * Step
    /\ \A s \in Symbols :
         now - Ref(Window(s), Len(Window(s)) + 1) < MaxIdle * Step
    /\ now' = now + Step
    /\ UNCHANGED <<symbol_data, last_processed, ret, calls, evaluated_at>>

----------------------------------------------------------------------------

Init ==
    /\ symbol_data = << >>
    /\ last_processed = << >>
    /\ now = Clock0
    /\ ret = NoRet
    /\ calls = [t \in Threads |-> NoCall]
    /\ evaluated_at = << >>

Next ==
    \/ UpdateData
    \/ CalculateIndicators
    \/ DetectTrend
    \/ DetectExit
    \/ GetMarketData
    \/ ClockAdvance

Spec == Init /\ [][Next]_vars

----------------------------------------------------------------------------
(* detect_trend called from two threads                                    *)

\* The window that n update_data calls, one a minute from Clock0 on, leave.
FedWindow(s, n) ==
    [i \in 1..n |->
        MkTick(FieldNames, s, BasePrice, BaseVolume, Clock0 + (i - 1) * Step)]

\* Lines 129-133: thread t enters detect_trend(s), computes the frame,
\* returns on line 131 when it is too short, and reads the clock.
Enter(t, s) ==
    /\ calls[t].pc = "idle"
    /\ \E src \in {SourceFrame(s)} :
          calls' = [calls EXCEPT ![t] =
                      IF src.none \/ src.len < TIME_INTERVAL_MINUTES
                      THEN [NoCall EXCEPT !.symbol = s]
                      ELSE [pc |-> "134", symbol |-> s, current_time |-> now,
                            last_processed_time |-> 0, passed |-> FALSE]]
    /\ UNCHANGED <<symbol_data, last_processed, now, ret, evaluated_at>>

\* Line 134: last_processed_time = self.last_processed.get(symbol, 0)
ReadLastProcessed(t) ==
    /\ calls[t].pc = "134"
    /\ calls' = [calls EXCEPT
                   ![t].pc = "137",
                   ![t].last_processed_time = LastProcessed(calls[t].symbol)]
    /\ UNCHANGED <<symbol_data, last_processed, now, ret, evaluated_at>>

\* Lines 137-138: the throttle gate, on the locals of the thread.
Gate(t) ==
    /\ calls[t].pc = "137"
    /\ calls' = [calls EXCEPT ![t] =
                   IF Throttled(@.current_time, @.last_processed_time)
                   THEN [@ EXCEPT !.pc = "idle"]
                   ELSE [@ EXCEPT !.pc = "168", !.passed = TRUE]]
    /\ UNCHANGED <<symbol_data, last_processed, now, ret, evaluated_at>>

\* Lines 141-197: the predicates, the write of last_processed on line 168
\* and the return.
WriteLastProcessed(t) ==
    /\ calls[t].pc = "168"
    /\ last_processed' = Processed(calls[t].symbol, calls[t].current_time)
    /\ calls' = [calls EXCEPT ![t].pc = "idle"]
    /\ evaluated_at' =
         (calls[t].symbol :> calls[t].current_time) @@ evaluated_at
    /\ UNCHANGED <<symbol_data, now, ret>>

Tick ==
    /\ now + Step <= Clock0 + MaxSteps * Step
    /\ now' = now + Step
    /\ UNCHANGED <<symbol_data, last_processed, ret, calls, evaluated_at>>

\* Every symbol has the ticks that clear the warm-up and give detect_trend
\* its rows; no detect_trend call has been made.
InitThreads ==
    /\ symbol_data =
         [s \in Symbols |-> FedWindow(s, WarmUpRows + TIME_INTERVAL_MINUTES)]
    /\ last_processed = [s \in Symbols |-> 0]
    /\ now = Clock0 + (WarmUpRows + TIME_INTERVAL_MINUTES - 1) * Step
    /\ ret = NoRet
    /\ calls = [t \in Threads |-> NoCall]
    /\ evaluated_at = << >>

NextThreads ==
    \/ \E t \in Threads, s \in Symbols : Enter(t, s)
    \/ \E t \in Threads : ReadLastProcessed(t)
    \/ \E t \in Threads : Gate(t)
    \/ \E t \in Threads : WriteLastProcessed(t)
    \/ Tick

SpecThreads == InitThreads /\ [][NextThreads]_vars

----------------------------------------------------------------------------
(* update_data called from two threads                                     *)

\* An update_data call in flight on a thread: pc is the line it is about to
\* run ("idle" before the call, "done" after it returned), tick its
\* argument, kept the list built by the comprehension of lines 43-46.
NoWrite == [pc |-> "idle", tick |-> NoTick, kept |-> << >>]

\* Lines 31-38: thread t enters update_data(tick) and appends the tick.
AppendTick(t, tick) ==
    /\ calls[t].pc = "idle"
    /\ symbol_data' = Appended(tick)
    /\ last_processed' = Registered(tick)
    /\ calls' = [calls EXCEPT ![t] = [pc |-> "41", tick |-> tick,
                                      kept |-> << >>]]
    /\ UNCHANGED <<now, ret, evaluated_at>>

\* Lines 41-42 and the right-hand side of lines 43-46: the clock is read
\* and the list of retained ticks is built from the stored list.
BuildKept(t) ==
    /\ calls[t].pc = "41"
    /\ calls' = [calls EXCEPT
                   ![t].pc = "43",
                   ![t].kept = Prune(symbol_data[calls[t].tick.symbol], now)]
    /\ UNCHANGED <<symbol_data, last_processed, now, ret, evaluated_at>>

\* Line 43: self.symbol_data[symbol] = <the list built>; the call returns.
AssignKept(t) ==
    /\ calls[t].pc = "43"
    /\ symbol_data' =
         [symbol_data EXCEPT ![calls[t].tick.symbol] = calls[t].kept]
    /\ calls' = [calls EXCEPT ![t].pc = "done"]
    /\ UNCHANGED <<last_processed, now, ret, evaluated_at>>

\* The state after construction; every thread makes one update_data call,
\* all within one reading of the clock.
InitWriters ==
    /\ symbol_data = << >>
    /\ last_processed = << >>
    /\ now = Clock0
    /\ ret = NoRet
    /\ calls = [t \in Threads |-> NoWrite]
    /\ evaluated_at = << >>

NextWriters ==
    \/ \E t \in Threads, s \in Symbols, p \in Prices :
          AppendTick(t, MkTick(FieldNames, s, p, BaseVolume, now))
    \/ \E t \in Threads : BuildKept(t)
    \/ \E t \in Threads : AssignKept(t)

SpecWriters == InitWriters /\ [][NextWriters]_vars

----------------------------------------------------------------------------
(* Two symbols in one DataProcessor                                        *)

SymbolPair == {"BTCUSDT", "ETHUSDT"}

\* The ticks appended to a window after the ones it starts with.
MaxFresh == 1

\* The ticks a window starts with, when it starts with any: the ones that
\* clear the warm-up and give detect_trend its rows.
FedRows == WarmUpRows + TIME_INTERVAL_MINUTES

\* The ticks appended to the window w since the start.
Fresh(w) == IF Len(w) >= FedRows THEN Len(w) - FedRows ELSE Len(w)

\* Some symbols start with FedRows ticks, one a minute, and no detect_trend
\* call made; the others have not been seen.
InitSymbols ==
    /\ \E fed \in {{"BTCUSDT"}, SymbolPair} :
          /\ symbol_data =
               [s \in fed |-> FedWindow(s, FedRows)]
          /\ last_processed = [s \in fed |-> 0]
    /\ now = Clock0 + (FedRows - 1) * Step
    /\ ret = NoRet
    /\ calls = [t \in Threads |-> NoCall]
    /\ evaluated_at = << >>

\* update_data with a tick of symbol s stamped with the clock.
UpdateSymbol(s) ==
    /\ Fresh(Window(s)) < MaxFresh
    /\ \E p \in Prices : update_data(MkTick(FieldNames, s, p, BaseVolume, now))

\* detect_trend(s)
DetectTrendOf(s) ==
    \E r \in {detect_trend_result(s, df, now) : df \in Frames(s)} :
        detect_trend(s, r)

NextSymbols ==
    \/ \E s \in SymbolPair : UpdateSymbol(s)
    \/ \E s \in SymbolPair : DetectTrendOf(s)
    \/ Tick

SpecSymbols == InitSymbols /\ [][NextSymbols]_vars

----------------------------------------------------------------------------
(* Retention                                                               *)

\* C1: after update_data(tick) for symbol s has returned, every tick in
\* the window of s has timestamp > now - 3h, now being the clock read by
\* that call; a tick that arrives with timestamp <= now - 3h is not in the
\* window after the call that appended it.
C1_PrunedAfterUpdate ==
    ret.op = "update_data" /\ ret.outcome = "None" =>
        LET w == Window(ret.symbol)
        IN /\ \A i \in 1..Len(w) : w[i].timestamp > ret.at - RetentionMs
           /\ ret.tick.timestamp <= ret.at - RetentionMs =>
                  \A i \in 1..Len(w) : w[i] # ret.tick

\* update_data returned after appending a tick exactly three hours old to
\* a window that holds other ticks.
C1_ExpiredTickArrived ==
    /\ ret.op = "update_data" /\ ret.outcome = "None"
    /\ ret.tick.timestamp = ret.at - RetentionMs
    /\ Len(Window(ret.symbol)) > 0

----------------------------------------------------------------------------
(* The throttle of detect_trend                                            *)

\* C2 as stated: of two detect_trend calls for the same symbol made less
\* than the interval apart, the second returns no signal.  ret is the
\* return of the first call, made at ret.at; the step is the second call,
\* made at now.
C2_SecondCallSilent ==
    [][/\ ret.op = "detect_trend" /\ ret'.op = "detect_trend"
       /\ ret'.symbol = ret.symbol
       /\ now' = now
       /\ now - ret.at < IntervalMs
       => ret'.outcome = "None"]_vars

\* C2, amended: of two detect_trend calls for the same symbol made less
\* than the interval apart, the first of which reached the evaluation of
\* the predicates (and so wrote last_processed), the second returns no
\* signal.  The first conjunct takes the first call from ret, the second
\* from last_processed, which also covers calls with update_data between
\* them.
C2_SilentAfterEvaluation ==
    [][/\ (/\ ret.op = "detect_trend" /\ ret'.op = "detect_trend"
           /\ ret'.symbol = ret.symbol
           /\ ret.line \in {171, 184, 197}
           /\ now' = now
           /\ now - ret.at < IntervalMs
           => ret'.outcome = "None")
       /\ (/\ ret'.op = "detect_trend"
           /\ now' = now
           /\ LastProcessed(ret'.symbol) > 0
           /\ now - LastProcessed(ret'.symbol) < IntervalMs
           => ret'.outcome = "None")]_vars

\* detect_trend returned at the throttle gate although the latest row of a
\* frame it may have computed satisfies the LONG or the SHORT predicates.
C2_ThrottledDespiteSignal ==
    /\ ret.op = "detect_trend" /\ ret.line = 138 /\ ret.at = now
    /\ \E df \in Frames(ret.symbol) :
          pump_signal(df.latest) \/ dump_signal(df.latest)

----------------------------------------------------------------------------
(* The holding period of detect_exit_signal                                *)

\* C3: for every position with now - position.timestamp < 15 minutes,
\* detect_exit_signal returns no signal, whatever the trend of the position
\* and whatever the frame holds; so it does for a position entered now.
C3_HoldingGate ==
    \A s \in Symbols : \A df \in Frames(s) : \A position \in Positions(s) :
        "timestamp" \in position.keys /\ now - position.timestamp < HoldingMs
        => detect_exit_result(position, df, now).outcome = "None"

\* detect_exit_signal returned at the holding gate for a symbol whose frame
\* has the rows an exit needs and a latest row that satisfies reversal
\* predicates of both trends.
C3_HeldDespiteReversal ==
    /\ ret.op = "detect_exit_signal" /\ ret.line = 213 /\ ret.at = now
    /\ \E df \in Frames(ret.symbol) :
          /\ ~df.none /\ df.len >= MinExitRows
          /\ LongReversal(df.latest)
    /\ \E df \in Frames(ret.symbol) :
          /\ ~df.none /\ df.len >= MinExitRows
          /\ ShortReversal(df.latest)

----------------------------------------------------------------------------
(* The row count of calculate_indicators                                   *)

----------------------------------------------------------------------------
(* Malformed ticks                                                         *)

\* C5: a malformed tick (a field missing, or price <= 0) never reaches a
\* window, and update_data of a well-formed tick succeeds.
C5_MalformedTickRejected ==
    /\ \A s \in DOMAIN symbol_data : \A i \in 1..Len(symbol_data[s]) :
           WellFormed(symbol_data[s][i])
    /\ ret.op = "update_data" /\ WellFormed(ret.tick) => ret.outcome = "None"

----------------------------------------------------------------------------
(* Exit on an EMA crossover                                                *)

\* C6: for a LONG position past the holding period and a frame of at least
\* 5 rows whose latest ema_crossover is -1 and whose row before it has
\* ema_crossover +1, detect_exit_signal returns an ExitSignal; so it does
\* for a SHORT position with +1 after -1.
C6_ExitOnCrossover ==
    \A s \in Symbols : \A df \in Frames(s) : \A position \in Positions(s) :
        /\ ~("timestamp" \in position.keys
              /\ now - position.timestamp < HoldingMs)
        /\ ~df.none /\ df.len >= MinExitRows
        /\ \/ /\ position.trend = "LONG"
              /\ df.latest.ema_crossover = -1 /\ df.prev_crossover = 1
           \/ /\ position.trend = "SHORT"
              /\ df.latest.ema_crossover = 1 /\ df.prev_crossover = -1
        => detect_exit_result(position, df, now).outcome = "ExitSignal"

\* C7: no operation called with well-formed arguments on windows of
\* well-formed ticks ends in an error.
C7_NoFault ==
    /\ \A s \in DOMAIN symbol_data : \A i \in 1..Len(symbol_data[s]) :
           WellFormed(symbol_data[s][i])
    /\ ret.op = "update_data" => WellFormed(ret.tick)
    => ret.outcome \notin {"KeyError", "AttributeError"}

\* C8: of two detect_trend calls for the same symbol that run on two
\* threads and read clocks less than the interval apart, at most one gets
\* past the throttle gate.
C8_OnePassesGate ==
    \A t, u \in Threads :
        /\ t # u
        /\ calls[t].passed /\ calls[u].passed
        /\ calls[t].symbol = calls[u].symbol
        /\ calls[t].current_time - calls[u].current_time < IntervalMs
        /\ calls[u].current_time - calls[t].current_time < IntervalMs
        => FALSE

----------------------------------------------------------------------------
(* Order of the stored window                                              *)

\* C9 as stated: the stored window of every symbol is in strictly
\* ascending timestamp order, with no two ticks sharing a timestamp.
C9_StoredWindowAscending ==
    \A s \in DOMAIN symbol_data :
        \A i, j \in 1..Len(symbol_data[s]) :
            /\ i < j
            /\ "timestamp" \in symbol_data[s][i].keys
            /\ "timestamp" \in symbol_data[s][j].keys
            => symbol_data[s][i].timestamp < symbol_data[s][j].timestamp

\* C9, amended: the rows that calculate_indicators makes of the stored
\* window (sort on timestamp, drop duplicates) are in strictly ascending
\* timestamp order with one row for each timestamp of the window; the
\* stored window itself keeps the order of arrival and its duplicates.
C9_FrameAscending ==
    \A s \in DOMAIN symbol_data :
        LET w == symbol_data[s]
            stamps == FrameStamps(s)
        IN /\ \A k \in 1..(Len(stamps) - 1) : stamps[k] < stamps[k + 1]
           /\ {stamps[k] : k \in 1..Len(stamps)}
                = {w[i].timestamp :
                     i \in {j \in 1..Len(w) : "timestamp" \in w[j].keys}}

\* calculate_indicators returned a frame for a window that holds a tick
\* with the timestamp of an earlier tick, or a tick older than an earlier
\* one.
C9_FrameOfUnorderedWindow ==
    /\ ret.op = "calculate_indicators" /\ ret.outcome = "frame"
    /\ LET w == Window(ret.symbol)
       IN \E i, j \in 1..Len(w) :
             /\ i < j
             /\ "timestamp" \in w[i].keys /\ "timestamp" \in w[j].keys
             /\ w[i].timestamp >= w[j].timestamp

----------------------------------------------------------------------------
(* The write of last_processed                                             *)

\* C10: after a detect_trend call that reached the evaluation of the
\* predicates, whether it returned LONG (line 171), SHORT (line 184) or no
\* signal (line 197), last_processed of its symbol is the clock of that
\* call.
C10_ProcessedOnEvaluation ==
    ret.op = "detect_trend" /\ ret.line \in {171, 184, 197} =>
        /\ ret.symbol \in DOMAIN last_processed
        /\ last_processed[ret.symbol] = ret.at

\* detect_trend evaluated the predicates and returned no signal.
C10_EvaluatedWithoutSignal ==
    /\ ret.op = "detect_trend" /\ ret.line = 197 /\ ret.outcome = "None"
    /\ LastProcessed(ret.symbol) = ret.at

----------------------------------------------------------------------------
(* Empty frames                                                            *)

\* C11: when dropping the rows with an undefined value leaves no row,
\* calculate_indicators reports "insufficient data", so neither it nor
\* get_market_data returns a frame without rows.
C11_NoEmptyFrame ==
    /\ ret.op \in {"calculate_indicators", "get_market_data"}
    /\ ret.outcome = "frame"
    => \A df \in Frames(ret.symbol) : df.len > 0

----------------------------------------------------------------------------
(* The profit of an exit                                                   *)

\* C12: whenever detect_exit_signal returns an ExitSignal for a position
\* with entry_price > 0, exit_price is the price of the latest row and
\* profit_pct is (exit_price - entry_price) / entry_price * 100 for a LONG
\* position, positive iff exit_price > entry_price, and (entry_price -
\* exit_price) / entry_price * 100 for a SHORT position, positive iff
\* exit_price < entry_price.
C12_ProfitDirection ==
    \A s \in Symbols : \A df \in Frames(s) : \A position \in Positions(s) :
        /\ detect_exit_result(position, df, now).outcome = "ExitSignal"
        /\ position.entry_price > 0
        => LET sig == exit_signal(position, df.latest, now)
               exit == df.latest.price
               entry == position.entry_price
           IN /\ sig.exit_price = exit
              /\ sig.profit_den = entry
              /\ position.trend = "LONG" =>
                    /\ sig.profit_num = (exit - entry) * 100
                    /\ sig.profit_num > 0 <=> exit > entry
              /\ position.trend = "SHORT" =>
                    /\ sig.profit_num = (entry - exit) * 100
                    /\ sig.profit_num > 0 <=> exit < entry

\* detect_exit_signal returned an ExitSignal for a SHORT position while the
\* latest price is below the entry price.
C12_ShortExitBelowEntry ==
    /\ ret.op = "detect_exit_signal" /\ ret.line = 260 /\ ret.at = now
    /\ \E df \in Frames(ret.symbol) : \E position \in Positions(ret.symbol) :
          /\ position.trend = "SHORT"
          /\ detect_exit_result(position, df, now).outcome = "ExitSignal"
          /\ df.latest.price < position.entry_price

----------------------------------------------------------------------------
(* The entry predicates                                                    *)

\* C13: for no indicator row are the LONG and the SHORT entry predicates
\* both true.
C13_PumpDumpExclusive ==
    \A s \in Symbols : \A df \in Frames(s) :
        ~df.none /\ df.len > 0
        => ~(pump_signal(df.latest) /\ dump_signal(df.latest))

\* detect_trend returned LONG and a frame of the symbol has a latest row
\* that satisfies the LONG predicates.
C13_PumpRow ==
    /\ ret.op = "detect_trend" /\ ret.line = 171 /\ ret.at = now
    /\ \E df \in Frames(ret.symbol) : pump_signal(df.latest)

----------------------------------------------------------------------------
(* Concurrent update_data                                                  *)

\* C14: once the update_data calls of all threads have returned, every
\* tick they appended that has not expired is in the window of its symbol.
C14_NoTickLost ==
    (\A t \in Threads : calls[t].pc = "done")
    => \A t \in Threads :
          Retained(calls[t].tick, now)
          => \E i \in 1..Len(Window(calls[t].tick.symbol)) :
                Window(calls[t].tick.symbol)[i] = calls[t].tick

----------------------------------------------------------------------------
(* Spacing of evaluations                                                  *)

\* C15: in a run of calls made one at a time, a detect_trend call that
\* evaluates the predicates is made at least one interval after the latest
\* earlier call for the same symbol that evaluated them, whatever ticks
\* were appended in between.
C15_EvaluationsSpaced ==
    [][/\ ret'.op = "detect_trend" /\ ret'.line \in {171, 184, 197}
       /\ now' = now
       /\ ret'.symbol \in DOMAIN evaluated_at
       => now - evaluated_at[ret'.symbol] >= IntervalMs]_vars

\* detect_trend returned at the throttle gate after a tick stamped later
\* than the latest evaluation had been appended.
C15_ThrottledAfterAppend ==
    /\ ret.op = "detect_trend" /\ ret.line = 138 /\ ret.at = now
    /\ ret.symbol \in DOMAIN evaluated_at
    /\ \E i \in 1..Len(Window(ret.symbol)) :
          Window(ret.symbol)[i].timestamp > evaluated_at[ret.symbol]

----------------------------------------------------------------------------
(* The entry signal                                                        *)

\* C16: a detect_trend call that reaches the evaluation returns LONG iff
\* the latest row has price_pct_change > threshold, rsi > 50, macd_diff >
\* 0, price > vwap, ema_crossover >= 0 and adx > adx_threshold; SHORT iff
\* it has price_pct_change < -threshold, rsi < 50, macd_diff < 0, price <
\* vwap, ema_crossover <= 0 and adx > adx_threshold; no signal otherwise;
\* and the signal carries the values of the latest row.
C16_SignalIffPredicates ==
    \A s \in Symbols : \A df \in Frames(s) :
        /\ ~df.none /\ df.len >= TIME_INTERVAL_MINUTES
        /\ now - LastProcessed(s) >= IntervalMs
        => LET row == df.latest
               r == detect_trend_result(s, df, now)
               sig == entry_signal(s, r.outcome, row, now)
               long == /\ PctAbove(row, PRICE_CHANGE_THRESHOLD)
                       /\ row.rsi > 50 /\ row.macd_diff > 0
                       /\ row.price * row.cum_v > row.cum_pv
                       /\ row.ema_crossover >= 0
                       /\ row.adx > ADX_THRESHOLD
               short == /\ PctBelow(row, -PRICE_CHANGE_THRESHOLD)
                        /\ row.rsi < 50 /\ row.macd_diff < 0
                        /\ row.price * row.cum_v < row.cum_pv
                        /\ row.ema_crossover <= 0
                        /\ row.adx > ADX_THRESHOLD
           IN /\ r.outcome = "LONG" <=> long
              /\ r.outcome = "SHORT" <=> short
              /\ r.outcome = "None" <=> ~long /\ ~short
              /\ r.outcome # "None" =>
                    /\ sig.trend = r.outcome
                    /\ sig.price = row.price
                    /\ sig.pct_num = row.pct_num /\ sig.pct_den = row.pct_den
                    /\ sig.rsi = row.rsi /\ sig.macd_diff = row.macd_diff
                    /\ sig.adx = row.adx /\ sig.stoch_k = row.stoch_k
                    /\ sig.ema_crossover = row.ema_crossover

\* detect_trend returned SHORT.
C16_ShortReturned ==
    /\ ret.op = "detect_trend" /\ ret.line = 184 /\ ret.outcome = "SHORT"
    /\ \E df \in Frames(ret.symbol) : dump_signal(df.latest)

----------------------------------------------------------------------------
(* The crossover sign                                                      *)

\* C17, as the specification states it: in the rows of a returned
\* indicator frame ema_crossover is +1 when ema_50 >= ema_200 and -1
\* otherwise, and is never 0.
C17_CrossoverNeverZero ==
    \A s \in Symbols : \A df \in Frames(s) :
        ~df.none /\ df.len > 0
        => /\ df.latest.ema_crossover # 0
           /\ df.latest.ema_crossover =
                IF df.latest.ema_50 >= df.latest.ema_200 THEN 1 ELSE -1

\* C17, as the code has it: in the rows of a returned indicator frame
\* ema_crossover is +1 when ema_50 > ema_200, -1 when ema_50 < ema_200
\* and 0 when the two are equal.
C17_CrossoverThreeValued ==
    \A s \in Symbols : \A df \in Frames(s) :
        ~df.none /\ df.len > 0
        => /\ df.latest.ema_50 > df.latest.ema_200
                => df.latest.ema_crossover = 1
           /\ df.latest.ema_50 < df.latest.ema_200
                => df.latest.ema_crossover = -1
           /\ df.latest.ema_50 = df.latest.ema_200
                => df.latest.ema_crossover = 0

\* calculate_indicators returned a frame whose latest row has equal
\* averages.
C17_EqualEmaRow ==
    /\ ret.op = "calculate_indicators" /\ ret.at = now
    /\ \E df \in Frames(ret.symbol) :
          /\ ~df.none /\ df.len > 0
          /\ df.latest.ema_50 = df.latest.ema_200

----------------------------------------------------------------------------
(* What each operation leaves alone                                        *)

----------------------------------------------------------------------------
(* Independence of the symbols                                             *)

\* C19: an update_data call for symbol s leaves the window and the
\* last_processed entry of every other symbol as they were; it enters
\* last_processed[s] = 0 when s had not been seen and leaves last_processed
\* alone otherwise; a detect_trend call for s leaves every window and the
\* last_processed entry of every other symbol as they were.
C19_SymbolsIndependent ==
    [][/\ symbol_data' # symbol_data
          => /\ ret'.op = "update_data"
             /\ \A o \in SymbolPair \ {ret'.symbol} :
                  /\ Window(o)' = Window(o)
                  /\ (o \in DOMAIN symbol_data') = (o \in DOMAIN symbol_data)
             /\ last_processed' =
                  IF ret'.symbol \in DOMAIN symbol_data THEN last_processed
                  ELSE (ret'.symbol :> 0) @@ last_processed
       /\ symbol_data' = symbol_data /\ last_processed' # last_processed
          => /\ ret'.op = "detect_trend"
             /\ \A o \in SymbolPair \ {ret'.symbol} :
                  /\ (o \in DOMAIN last_processed') =
                       (o \in DOMAIN last_processed)
                  /\ LastProcessed(o)' = LastProcessed(o)]_vars

\* update_data appended a tick for a symbol whose last_processed a
\* detect_trend call had written, the other symbol having a time written
\* too.
C19_AppendAfterEvaluation ==
    /\ ret.op = "update_data" /\ ret.symbol \in DOMAIN last_processed
    /\ last_processed[ret.symbol] > 0
    /\ \E o \in SymbolPair \ {ret.symbol} :
          /\ o \in DOMAIN last_processed
          /\ last_processed[o] > 0
          /\ last_processed[o] # last_processed[ret.symbol]

====
